---- MODULE Spec2Model ----
(***************************************************************************)
(* A model of src/boomi_scheduled_jobs.py: the cron field parser, the      *)
(* occurrence expander, the UTC -> US/Mountain converter, the classifier,  *)
(* the pattern describer with its frequency ordering, and the statistics   *)
(* aggregation.                                                            *)
(*                                                                         *)
(* Python text is modelled as a sequence of one-character strings, so      *)
(* that `in`, split, int, str, lower and capitalize are computed and not   *)
(* assumed.  A call that raises is a record with raised = TRUE.            *)
(*                                                                         *)
(* Every function of the module is pure; the state is the last call made:  *)
(* which function (call), its arguments (args) and what it returned or     *)
(* whether it raised (ret).  No function keeps anything from one call to   *)
(* the next, so a behaviour is one call made from the idle state.          *)
(***************************************************************************)
EXTENDS Integers, Sequences, FiniteSets, TLC

VARIABLES call, args, ret

vars == <<call, args, ret>>

----------------------------------------------------------------------------
(* Bounds of the input sets.                                               *)

\* longest arbitrary text handed to the field parser
MaxLen == 3
\* longest arbitrary text put in a job's hours or minutes field
MaxJobTextLen == 1
\* largest endpoint of the generated ranges "a-b" and "a-b/s"
MaxVal == 23
\* largest step of the generated ranges "a-b/s"
MaxStep == 6
\* longest job collection
MaxJobs == 2

----------------------------------------------------------------------------
(* Python built-ins on text and integers.                                  *)

Digits == <<"0", "1", "2", "3", "4", "5", "6", "7", "8", "9">>

LowerLetters == <<"a", "b", "c", "d", "e", "f", "g", "h", "i", "j", "k", "l", "m", "n", "o", "p", "q", "r", "s", "t", "u", "v", "w", "x", "y", "z">>

UpperLetters == <<"A", "B", "C", "D", "E", "F", "G", "H", "I", "J", "K", "L", "M", "N", "O", "P", "Q", "R", "S", "T", "U", "V", "W", "X", "Y", "Z">>

IsDigit(c) == \E i \in 1..10 : Digits[i] = c

DigitVal(c) == (CHOOSE i \in 1..10 : Digits[i] = c) - 1

\* str.lower() of one character
LowerChar(c) ==
    IF \E i \in 1..26 : UpperLetters[i] = c
    THEN LowerLetters[CHOOSE i \in 1..26 : UpperLetters[i] = c]
    ELSE c

\* str.upper() of one character
UpperChar(c) ==
    IF \E i \in 1..26 : LowerLetters[i] = c
    THEN UpperLetters[CHOOSE i \in 1..26 : LowerLetters[i] = c]
    ELSE c

\* s.lower()
Lower(s) == [i \in 1..Len(s) |-> LowerChar(s[i])]

\* s.capitalize(): first character upper-cased, all the others lower-cased
Capitalize(s) == [i \in 1..Len(s) |-> IF i = 1 THEN UpperChar(s[i]) ELSE LowerChar(s[i])]

\* c in s, for a one-character c
Contains(s, c) == \E i \in 1..Len(s) : s[i] = c

\* p in s, for a text p
IsSubstr(p, s) == \E i \in 0..(Len(s) - Len(p)) : SubSeq(s, i + 1, i + Len(p)) = p

\* s.startswith(p)
StartsWith(s, p) == Len(p) <= Len(s) /\ SubSeq(s, 1, Len(p)) = p

\* s.split(sep), for a one-character sep: always at least one piece
RECURSIVE Split(_, _)
Split(s, sep) ==
    IF ~Contains(s, sep) THEN <<s>>
    ELSE LET i == CHOOSE k \in 1..Len(s) : s[k] = sep /\ \A j \in 1..(k - 1) : s[j] # sep
         IN  <<SubSeq(s, 1, i - 1)>> \o Split(SubSeq(s, i + 1, Len(s)), sep)

RECURSIVE DigitsValue(_)
DigitsValue(s) ==
    IF s = <<>> THEN 0
    ELSE 10 * DigitsValue(SubSeq(s, 1, Len(s) - 1)) + DigitVal(s[Len(s)])

Unsigned(s) == IF s # <<>> /\ s[1] \in {"-", "+"} THEN Tail(s) ELSE s

\* the texts int() accepts: an optional sign and at least one digit
\* (int() also accepts surrounding blanks and single underscores between
\* digits; the input alphabets below hold neither)
IsIntText(s) == Unsigned(s) # <<>> /\ \A i \in 1..Len(Unsigned(s)) : IsDigit(Unsigned(s)[i])

Ok(v) == [raised |-> FALSE, val |-> v]

Raise == [raised |-> TRUE, val |-> <<>>]

\* int(s): the value, or ValueError
int(s) ==
    IF ~IsIntText(s) THEN [raised |-> TRUE, val |-> 0]
    ELSE [raised |-> FALSE,
          val |-> IF s[1] = "-" THEN 0 - DigitsValue(Unsigned(s)) ELSE DigitsValue(Unsigned(s))]

\* str(n)
RECURSIVE Str(_)
Str(n) ==
    IF n < 0 THEN <<"-">> \o Str(0 - n)
    ELSE IF n < 10 THEN <<Digits[n + 1]>>
    ELSE Str(n \div 10) \o <<Digits[(n % 10) + 1]>>

\* list(range(start, stop, step)), step # 0
RECURSIVE PyRange(_, _, _)
PyRange(start, stop, step) ==
    IF (step > 0 /\ start >= stop) \/ (step < 0 /\ start <= stop) THEN <<>>
    ELSE <<start>> \o PyRange(start + step, stop, step)

\* job.get(col, default)
Get(job, col, default) == IF col \in DOMAIN job THEN job[col] ELSE default

----------------------------------------------------------------------------
(* parse_cron_time_range and parse_job_schedule                            *)

\* start, end = map(int, base.split('-')): raises unless exactly two integers
IntPair(pieces) ==
    IF Len(pieces) # 2 \/ \E i \in 1..Len(pieces) : int(pieces[i]).raised THEN Raise
    ELSE Ok(<<int(pieces[1]).val, int(pieces[2]).val>>)

\* range(start, end, step): the end left out
RangeWithStepOpen(start, end, step) ==
    IF step = 0 THEN Raise ELSE Ok(PyRange(start, end, step))

\* times.extend(range(start, end + 1, step)): range() raises on a step of 0
RangeWithStep(start, end, step) ==
    IF step = 0 THEN Raise ELSE Ok(PyRange(start, end + 1, step))

\* the branch of parse_cron_time_range for a text that holds '/'
ParseStepped(time_str) ==
    LET parts == Split(time_str, "/")
    IN  IF Len(parts) # 2 THEN Raise
        ELSE LET base == parts[1]
                 step == int(parts[2])
             IN  IF step.raised THEN Raise
                 ELSE IF Contains(base, "-")
                 THEN LET se == IntPair(Split(base, "-"))
                      IN  IF se.raised THEN Raise
                          ELSE RangeWithStep(se.val[1], se.val[2], step.val)
                 ELSE IF int(base).raised THEN Raise
                 ELSE Ok(<<int(base).val>>)

\* the branch for "a-b"
ParseRange(time_str) ==
    LET se == IntPair(Split(time_str, "-"))
    IN  IF se.raised THEN Raise ELSE Ok(PyRange(se.val[1], se.val[2] + 1, 1))

\* the branch for "v1,v2,...": the values in list order, repeats kept
ParseList(time_str) ==
    LET pieces == Split(time_str, ",")
    IN  IF \E i \in 1..Len(pieces) : int(pieces[i]).raised THEN Raise
        ELSE Ok([i \in 1..Len(pieces) |-> int(pieces[i]).val])

\* the '*' branch: `'hour' in str(time_str)` is asked of the text "*" itself
ParseStar(time_str) ==
    IF IsSubstr(<<"h", "o", "u", "r">>, time_str) THEN PyRange(0, 24, 1) ELSE PyRange(0, 60, 1)

parse_cron_time_range(time_str) ==
    IF time_str = <<"*">> THEN Ok(ParseStar(time_str))
    ELSE IF Contains(time_str, "/") THEN ParseStepped(time_str)
    ELSE IF Contains(time_str, "-") THEN ParseRange(time_str)
    ELSE IF Contains(time_str, ",") THEN ParseList(time_str)
    ELSE IF int(time_str).raised THEN Raise
    ELSE Ok(<<int(time_str).val>>)

\* for hour in hours: for minute in minutes: times.append((hour, minute))
Combinations(hours, minutes) ==
    [k \in 1..(Len(hours) * Len(minutes)) |->
        <<hours[((k - 1) \div Len(minutes)) + 1], minutes[((k - 1) % Len(minutes)) + 1]>>]

\* the bare except: any failure of either field gives [(0, 0)]
parse_job_schedule(job) ==
    LET hours == parse_cron_time_range(Get(job, "hours", <<"*">>))
        minutes == parse_cron_time_range(Get(job, "minutes", <<"0">>))
    IN  IF hours.raised \/ minutes.raised THEN << <<0, 0>> >>
        ELSE Combinations(hours.val, minutes.val)

----------------------------------------------------------------------------
(* convert_utc_to_mst and format_time_12hour                               *)

\* the reference date of convert_utc_to_mst: datetime(2025, 1, 1, ...)
ReferenceMonth == 1

ReferenceDay == 1

\* US/Mountain in 2025: daylight time (UTC-6) from 9 March to 2 November,
\* standard time (UTC-7) otherwise
MountainOffsetHours(month, day) ==
    IF /\ (month > 3 \/ (month = 3 /\ day >= 9))
       /\ (month < 11 \/ (month = 11 /\ day < 2))
    THEN 0 - 6 ELSE 0 - 7

\* hour and minute taken without wrapping into the day
WallClockNoWrap(instant) == << instant \div 60, instant % 60 >>

\* the wall clock of an instant given in minutes from the reference day's
\* UTC midnight: the date is dropped, hour and minute are kept
WallClock(instant) == << (instant % 1440) \div 60, (instant % 1440) % 60 >>

\* datetime(...) raises ValueError outside 0..23 and 0..59
convert_utc_to_mst(hour, minute) ==
    IF hour \notin 0..23 \/ minute \notin 0..59 THEN Raise
    ELSE Ok(WallClock(hour * 60 + minute
                      + MountainOffsetHours(ReferenceMonth, ReferenceDay) * 60))

\* f"{minute:02d}"
Pad2(n) == IF n >= 0 /\ n < 10 THEN <<"0">> \o Str(n) ELSE Str(n)

Period(hour) == IF hour < 12 THEN <<"A", "M">> ELSE <<"P", "M">>

DisplayHour(hour) ==
    LET display_hour == IF hour <= 12 THEN hour ELSE hour - 12
    IN  IF display_hour = 0 THEN 12 ELSE display_hour

format_time_12hour(hour, minute) ==
    Str(DisplayHour(hour)) \o <<":">> \o Pad2(minute) \o <<" ">> \o Period(hour)

----------------------------------------------------------------------------
(* is_job_enabled and categorize_jobs                                      *)

\* the enabled value of a record is a bool or a text
BoolVal(b) == [kind |-> "bool", b |-> b]

StrVal(s) == [kind |-> "str", s |-> s]

is_job_enabled(job) ==
    LET enabled_val == Get(job, "enabled", BoolVal(FALSE))
    IN  IF enabled_val.kind = "str" THEN Lower(enabled_val.s) = <<"t", "r", "u", "e">>
        ELSE enabled_val.b

\* more executions a day than this makes a job recurring
FrequentAbove == 8

\* any('/' in str(job.get(col, '')) for col in ['hours', 'minutes'])
HasStep(job) ==
    \E col \in {"hours", "minutes"} : Contains(Get(job, col, <<>>), "/")

\* eight executions a day already counted as frequent
IsRecurringFromEight(job) == Len(parse_job_schedule(job)) >= FrequentAbove \/ HasStep(job)

IsRecurring(job) == Len(parse_job_schedule(job)) > FrequentAbove \/ HasStep(job)

\* the loop of categorize_jobs over the first n rows
RECURSIVE CategorizeRows(_, _)
CategorizeRows(df, n) ==
    IF n = 0 THEN [recurring_jobs |-> <<>>, scheduled_jobs |-> <<>>]
    ELSE LET sofar == CategorizeRows(df, n - 1)
         IN  IF IsRecurring(df[n])
             THEN [sofar EXCEPT !.recurring_jobs = Append(@, df[n])]
             ELSE [sofar EXCEPT !.scheduled_jobs = Append(@, df[n])]

categorize_jobs(df) == CategorizeRows(df, Len(df))

----------------------------------------------------------------------------
(* show_job_statistics                                                     *)

\* the counting loop over the first n rows
RECURSIVE CountEnabled(_, _)
CountEnabled(df, n) ==
    IF n = 0 THEN 0
    ELSE CountEnabled(df, n - 1) + (IF is_job_enabled(df[n]) THEN 1 ELSE 0)

\* enabled_jobs/total_jobs*100 raises ZeroDivisionError when total_jobs is 0;
\* the text of the two deltas is display only and is left out
show_job_statistics(df) ==
    LET total_jobs == Len(df)
        enabled_jobs == CountEnabled(df, Len(df))
        disabled_jobs == Len(df) - enabled_jobs
        cats == categorize_jobs(df)
    IN  IF total_jobs = 0 THEN Raise
        ELSE Ok([total |-> total_jobs, enabled |-> enabled_jobs, disabled |-> disabled_jobs,
                 recurring |-> Len(cats.recurring_jobs), scheduled |-> Len(cats.scheduled_jobs)])

----------------------------------------------------------------------------
(* parse_recurring_pattern_description                                     *)

AllDay == <<"a", "l", "l", " ", "d", "a", "y">>

\* the last two characters, s[-2:]
LastTwo(s) == SubSeq(s, Len(s) - 1, Len(s))

\* the whole of format_time_12hour(h, m), minutes kept
HourAndPeriodFull(hour, minute) == format_time_12hour(hour, minute)

\* format_time_12hour(h, m).split(':')[0] + format_time_12hour(h, m)[-2:]
HourAndPeriod(hour, minute) ==
    Split(format_time_12hour(hour, minute), ":")[1] \o LastTwo(format_time_12hour(hour, minute))

DuringHours(hours_str) == <<"d", "u", "r", "i", "n", "g", " ", "h", "o", "u", "r", "s", " ">> \o hours_str

HourDesc(hours_str) ==
    IF hours_str = <<"*">> \/ hours_str = <<"0", "-", "2", "3">> THEN AllDay
    ELSE IF Contains(hours_str, "-")
    THEN LET base_part == IF Contains(hours_str, "/") THEN Split(hours_str, "/")[1] ELSE hours_str
             parts == Split(base_part, "-")
         IN  IF Len(parts) = 2
             THEN IF int(parts[1]).raised \/ int(parts[2]).raised THEN DuringHours(hours_str)
                  ELSE <<"f", "r", "o", "m", " ">> \o HourAndPeriod(int(parts[1]).val, 0)
                       \o <<" ", "t", "o", " ">> \o HourAndPeriod(int(parts[2]).val, 59)
             ELSE DuringHours(hours_str)
    ELSE IF int(hours_str).raised THEN DuringHours(hours_str)
    ELSE <<"a", "t", " ">> \o Str(int(hours_str).val) \o <<" ", "o", "'", "c", "l", "o", "c", "k">>

IntervalDesc(interval) ==
    CASE interval = 1 -> <<"o", "n", "c", "e", " ", "a", " ", "m", "i", "n", "u", "t", "e">>
      [] interval = 2 -> <<"o", "n", "c", "e", " ", "e", "v", "e", "r", "y", " ", "t", "w", "o", " ", "m", "i", "n", "u", "t", "e", "s">>
      [] interval = 5 -> <<"o", "n", "c", "e", " ", "e", "v", "e", "r", "y", " ", "f", "i", "v", "e", " ", "m", "i", "n", "u", "t", "e", "s">>
      [] interval = 10 -> <<"o", "n", "c", "e", " ", "e", "v", "e", "r", "y", " ", "t", "e", "n", " ", "m", "i", "n", "u", "t", "e", "s">>
      [] interval = 15 -> <<"o", "n", "c", "e", " ", "e", "v", "e", "r", "y", " ", "f", "i", "f", "t", "e", "e", "n", " ", "m", "i", "n", "u", "t", "e", "s">>
      [] interval = 30 -> <<"o", "n", "c", "e", " ", "e", "v", "e", "r", "y", " ", "t", "h", "i", "r", "t", "y", " ", "m", "i", "n", "u", "t", "e", "s">>
      [] interval = 60 -> <<"o", "n", "c", "e", " ", "a", "n", " ", "h", "o", "u", "r">>
      [] OTHER -> <<"o", "n", "c", "e", " ", "e", "v", "e", "r", "y", " ">> \o Str(interval) \o <<" ", "m", "i", "n", "u", "t", "e", "s">>

MinuteDesc(minutes_str) ==
    IF minutes_str = <<"*">> THEN <<"e", "v", "e", "r", "y", " ", "m", "i", "n", "u", "t", "e">>
    ELSE IF Contains(minutes_str, "/")
    THEN LET pieces == Split(minutes_str, "/")
         IN  IF Len(pieces) # 2 \/ int(pieces[2]).raised
             THEN <<"w", "i", "t", "h", " ", "p", "a", "t", "t", "e", "r", "n", " ">> \o minutes_str
             ELSE IntervalDesc(int(pieces[2]).val)
    ELSE IF Contains(minutes_str, "-") THEN <<"e", "v", "e", "r", "y", " ", "m", "i", "n", "u", "t", "e", " ", "d", "u", "r", "i", "n", "g", " ">> \o minutes_str
    ELSE IF Contains(minutes_str, ",")
    THEN IF Len(Split(minutes_str, ",")) <= 3 THEN <<"a", "t", " ", "m", "i", "n", "u", "t", "e", "s", " ">> \o minutes_str
         ELSE <<"a", "t", " ">> \o Str(Len(Split(minutes_str, ","))) \o <<" ", "s", "p", "e", "c", "i", "f", "i", "c", " ", "t", "i", "m", "e", "s">>
    ELSE IF int(minutes_str).raised THEN <<"w", "i", "t", "h", " ", "m", "i", "n", "u", "t", "e", " ", "p", "a", "t", "t", "e", "r", "n", " ">> \o minutes_str
    ELSE <<"a", "t", " ", "m", "i", "n", "u", "t", "e", " ">> \o Str(int(minutes_str).val)

Combine(hour_desc, minute_desc) ==
    IF hour_desc = AllDay
    THEN IF StartsWith(minute_desc, <<"o", "n", "c", "e", " ", "a", " ", "m", "i", "n", "u", "t", "e">>) THEN <<"O", "n", "c", "e", " ", "a", " ", "m", "i", "n", "u", "t", "e">>
         ELSE IF StartsWith(minute_desc, <<"o", "n", "c", "e", " ", "e", "v", "e", "r", "y">>) THEN Capitalize(minute_desc)
         ELSE Capitalize(minute_desc) \o <<" ">> \o hour_desc
    ELSE IF StartsWith(minute_desc, <<"o", "n", "c", "e", " ", "a", " ", "m", "i", "n", "u", "t", "e">>) THEN <<"O", "n", "c", "e", " ", "a", " ", "m", "i", "n", "u", "t", "e", " ">> \o hour_desc
         ELSE Capitalize(minute_desc) \o <<" ">> \o hour_desc

parse_recurring_pattern_description(job) ==
    Combine(HourDesc(Get(job, "hours", <<"*">>)), MinuteDesc(Get(job, "minutes", <<"0">>)))

----------------------------------------------------------------------------
(* Grouping shared by the two views: a defaultdict(list) filled in order.  *)

\* the keys of a dict in insertion order, after the first n entries
RECURSIVE KeysInOrder(_, _)
KeysInOrder(entries, n) ==
    IF n = 0 THEN <<>>
    ELSE LET keys == KeysInOrder(entries, n - 1)
         IN  IF \E i \in 1..Len(keys) : keys[i] = entries[n].key THEN keys
             ELSE Append(keys, entries[n].key)

\* time_groups[key] / pattern_groups[key]: the jobs appended under key, in order
JobsUnder(entries, key) ==
    LET Under(e) == e.key = key
        hits == SelectSeq(entries, Under)
    IN  [i \in 1..Len(hits) |-> hits[i].job]

\* job['Name'][:40] + "..." if len(job['Name']) > 40 else job['Name']
NameLimit == 40

ShortName(name) == IF Len(name) > NameLimit THEN SubSeq(name, 1, NameLimit) \o <<".", ".", ".">> ELSE name

\* the status boxes written for the jobs of one group, three columns wide
Boxes(jobs) ==
    [i \in 1..Len(jobs) |->
        [col |-> (i - 1) % 3, enabled |-> is_job_enabled(jobs[i]),
         job_name |-> ShortName(jobs[i].Name), full_name |-> jobs[i].Name]]

RECURSIVE Flatten(_)
Flatten(seqs) == IF seqs = <<>> THEN <<>> ELSE Head(seqs) \o Flatten(Tail(seqs))

----------------------------------------------------------------------------
(* create_timeline_view                                                    *)

\* the (time_key, job) pairs of one job, in the order they are appended
TimelineEntriesOf(job) ==
    LET times == parse_job_schedule(job)
    IN  [i \in 1..Len(times) |->
            [key |-> convert_utc_to_mst(times[i][1], times[i][2]).val, job |-> job]]

TimelineRaises(jobs) ==
    \E j \in 1..Len(jobs) :
        \/ "Name" \notin DOMAIN jobs[j]
        \/ \E i \in 1..Len(parse_job_schedule(jobs[j])) :
              convert_utc_to_mst(parse_job_schedule(jobs[j])[i][1],
                                 parse_job_schedule(jobs[j])[i][2]).raised

\* tuple order of (hour, minute)
TimeLess(a, b) == a[1] < b[1] \/ (a[1] = b[1] /\ a[2] < b[2])

\* sorted(time_groups.keys())
RECURSIVE SortedTimes(_)
SortedTimes(keys) ==
    IF keys = {} THEN <<>>
    ELSE LET first == CHOOSE a \in keys : \A b \in keys \ {a} : TimeLess(a, b)
         IN  <<first>> \o SortedTimes(keys \ {first})

\* the groups written, in order; nothing is written for an empty list
create_timeline_view(jobs) ==
    IF jobs = <<>> THEN Ok(<<>>)
    ELSE IF TimelineRaises(jobs) THEN Raise
    ELSE LET entries == Flatten([j \in 1..Len(jobs) |-> TimelineEntriesOf(jobs[j])])
             sorted_times == SortedTimes({entries[i].key : i \in 1..Len(entries)})
         IN  Ok([g \in 1..Len(sorted_times) |->
                    [title |-> format_time_12hour(sorted_times[g][1], sorted_times[g][2]),
                     boxes |-> Boxes(JobsUnder(entries, sorted_times[g]))]])

----------------------------------------------------------------------------
(* create_recurring_timeline_view and its get_frequency_score              *)

\* a score is num/den with den > 0, or the ZeroDivisionError of 1000 / 0.
\* The code holds 1000 / int as a float; for the integers reached here two
\* such floats compare as the fractions do.
Score(num, den) == [raised |-> FALSE, num |-> num, den |-> den]

ScoreRaise == [raised |-> TRUE, num |-> 0, den |-> 1]

HasNumber(s) == \E i \in 1..Len(s) : IsDigit(s[i])

\* re.findall(r'\d+', pattern)[0]: the first maximal run of digits
FirstNumberText(s) ==
    LET start == CHOOSE i \in 1..Len(s) : IsDigit(s[i]) /\ \A j \in 1..(i - 1) : ~IsDigit(s[j])
        end == CHOOSE k \in start..Len(s) :
                   /\ \A j \in start..k : IsDigit(s[j])
                   /\ (k = Len(s) \/ ~IsDigit(s[k + 1]))
    IN  SubSeq(s, start, end)

get_frequency_score(pattern) ==
    IF IsSubstr(<<"o", "n", "c", "e", " ", "a", " ", "m", "i", "n", "u", "t", "e">>, Lower(pattern)) THEN Score(1000, 1)
    ELSE IF IsSubstr(<<"o", "n", "c", "e", " ", "e", "v", "e", "r", "y", " ", "t", "w", "o", " ", "m", "i", "n", "u", "t", "e", "s">>, Lower(pattern)) THEN Score(500, 1)
    ELSE IF IsSubstr(<<"o", "n", "c", "e", " ", "e", "v", "e", "r", "y">>, Lower(pattern)) /\ IsSubstr(<<"m", "i", "n", "u", "t", "e", "s">>, Lower(pattern))
    THEN IF HasNumber(pattern)
         THEN IF int(FirstNumberText(pattern)).val = 0 THEN ScoreRaise
              ELSE Score(1000, int(FirstNumberText(pattern)).val)
         ELSE Score(100, 1)
    ELSE IF IsSubstr(<<"o", "n", "c", "e", " ", "e", "v", "e", "r", "y">>, Lower(pattern)) /\ IsSubstr(<<"h", "o", "u", "r">>, Lower(pattern))
    THEN Score(10, 1)
    ELSE Score(1, 1)

\* a.num/a.den < b.num/b.den
ScoreLess(a, b) == a.num * b.den < b.num * a.den

\* sorted(..., key=get_frequency_score, reverse=True) is stable: a pattern goes
\* before the first one of a strictly lower score
InsertByScore(sorted, pattern) ==
    LET lower == {i \in 1..Len(sorted) :
                     ScoreLess(get_frequency_score(sorted[i]), get_frequency_score(pattern))}
        at == IF lower = {} THEN Len(sorted) + 1
              ELSE CHOOSE i \in lower : \A j \in lower : i <= j
    IN  SubSeq(sorted, 1, at - 1) \o <<pattern>> \o SubSeq(sorted, at, Len(sorted))

RECURSIVE SortedByScore(_, _)
SortedByScore(patterns, n) ==
    IF n = 0 THEN <<>> ELSE InsertByScore(SortedByScore(patterns, n - 1), patterns[n])

PatternEntries(jobs) ==
    [j \in 1..Len(jobs) |-> [key |-> parse_recurring_pattern_description(jobs[j]), job |-> jobs[j]]]

\* the groups written, in order; nothing is written for an empty list
create_recurring_timeline_view(jobs) ==
    IF jobs = <<>> THEN Ok(<<>>)
    ELSE LET entries == PatternEntries(jobs)
             patterns == KeysInOrder(entries, Len(entries))
             sorted_patterns == SortedByScore(patterns, Len(patterns))
         IN  IF \E i \in 1..Len(patterns) : get_frequency_score(patterns[i]).raised THEN Raise
             ELSE IF \E j \in 1..Len(jobs) : "Name" \notin DOMAIN jobs[j] THEN Raise
             ELSE Ok([g \in 1..Len(sorted_patterns) |->
                        [title |-> sorted_patterns[g],
                         boxes |-> Boxes(JobsUnder(entries, sorted_patterns[g]))]])

----------------------------------------------------------------------------
(* Inputs.                                                                 *)

\* the characters of the arbitrary texts
Chars == {"0", "1", "5", "-", "/", ",", "*", "x"}

\* every text over Chars of length at most n
TextsUpTo(n) == UNION {[1..k -> Chars] : k \in 0..n}

RangeText(a, b) == Str(a) \o <<"-">> \o Str(b)

RangeStepText(a, b, s) == Str(a) \o <<"-">> \o Str(b) \o <<"/">> \o Str(s)

\* texts of the kinds the docstrings and comments of the source name
SampleTexts ==
    { <<"*">>, <<"0">>, <<"7">>, <<"3", "0">>, <<"a", "b", "c">>, <<"7", "-", "7", "/", "1">>, <<"1", "5", "-", "2", "2">>, <<"0", "-", "5", "9", "/", "3", "0">>, <<"0", "-", "5", "9", "/", "2">>, <<"0", "-", "5", "9", "/", "5">>,
      <<"0", "-", "5", "9", "/", "7">>, <<"0", "-", "5", "9", "/", "0">>, <<"0", "-", "5", "9", "/", "6", "0">>, <<"0", "-", "2", "3">>, <<"0", "-", "2", "3", "/", "1", "2">>, <<"9", "-", "1", "7">>, <<"0", ",", "1", "5", ",", "3", "0", ",", "4", "5">>, <<"1", ",", "1">>,
      <<"1", ",", "2", ",", "3">>, <<"5", "/", "0">>, <<"5", "/", "2">>, <<"*", "/", "5">>, <<"1", "-", "2", "-", "3">>, <<"1", "/", "2", "/", "3">>, <<"0", "-", "8">>, <<"0", "-", "7">>, <<"0", "-", "x">>, <<"0", "-", "5", "/", "-", "1">>,
      <<"5", "-", "3", "/", "-", "1">>, <<"1", ",", "2", ",", "3", ",", "4", ",", "5", ",", "6", ",", "7", ",", "8", ",", "9">> }

RangeTexts == {RangeText(a, b) : a \in 0..MaxVal, b \in 0..MaxVal}

RangeStepTexts == {RangeStepText(r[1], r[2], s) : r \in (0..MaxVal) \X (0..MaxVal), s \in 0..MaxStep}

FieldTexts == TextsUpTo(MaxLen) \cup SampleTexts \cup RangeTexts \cup RangeStepTexts

JobTexts == TextsUpTo(MaxJobTextLen) \cup SampleTexts

\* a job with both schedule fields, with one, or with none
ScheduleFields ==
    {[hours |-> h, minutes |-> m] : h \in JobTexts, m \in JobTexts}
    \cup {[hours |-> h] : h \in JobTexts}
    \cup {[minutes |-> m] : m \in JobTexts}
    \cup {<<>>}

\* a full record: the columns the views read
Job(name, enabled, hours, minutes) ==
    [Name |-> name, enabled |-> enabled, hours |-> hours, minutes |-> minutes]

\* a name longer than the 40 characters a status box shows
LongName == <<"N", "i", "g", "h", "t", "l", "y", " ", "r", "e", "c", "o", "n", "c", "i", "l", "i", "a", "t", "i", "o", "n", " ", "o", "f", " ", "l", "e", "d", "g", "e", "r", " ", "b", "a", "l", "a", "n", "c", "e", "s">>

\* records of the upstream feed: both spellings of enabled, a record without
\* schedule columns, steps, ranges, lists and unparseable text
JobPool ==
    { Job(<<"A">>, BoolVal(TRUE), <<"9">>, <<"0">>),
      Job(<<"B">>, StrVal(<<"t", "r", "u", "e">>), <<"9", "-", "1", "7">>, <<"0">>),
      Job(<<"C">>, BoolVal(FALSE), <<"0", "-", "7">>, <<"3", "0">>),
      Job(<<"D">>, StrVal(<<"T", "r", "u", "e">>), <<"*">>, <<"0", "-", "5", "9", "/", "5">>),
      Job(<<"E">>, StrVal(<<"f", "a", "l", "s", "e">>), <<"*">>, <<"0", "-", "5", "9", "/", "7">>),
      Job(<<"F">>, BoolVal(TRUE), <<"0">>, <<"0", "-", "5", "9", "/", "5">>),
      Job(<<"G">>, BoolVal(TRUE), <<"*">>, <<"0", "-", "5", "9", "/", "0">>),
      Job(<<"H">>, BoolVal(FALSE), <<"*">>, <<"*">>),
      Job(<<"I">>, BoolVal(TRUE), <<"*">>, <<"0", "-", "5", "9", "/", "1">>),
      Job(<<"J">>, StrVal(<<"T", "R", "U", "E">>), <<"*">>, <<"0", "-", "5", "9", "/", "2">>),
      Job(<<"K">>, BoolVal(TRUE), <<"9", "-", "1", "7">>, <<"0", "-", "5", "9", "/", "5">>),
      Job(<<"L">>, BoolVal(TRUE), <<"a", "b", "c">>, <<"0">>),
      Job(<<"M">>, BoolVal(FALSE), <<"*">>, <<"0", "-", "5", "9", "/", "6", "0">>),
      Job(<<"N">>, StrVal(<<"y", "e", "s">>), <<"0", "-", "x">>, <<"0", "-", "5", "9", "/", "1", "5">>),
      Job(<<"O">>, BoolVal(TRUE), <<"2", "5">>, <<"0">>),
      Job(<<"P">>, BoolVal(TRUE), <<"6", ",", "1", "8">>, <<"x", "/", "y">>),
      Job(LongName, BoolVal(TRUE), <<"1", ",", "1">>, <<"0", ",", "1", "5", ",", "3", "0", ",", "4", "5">>),
      [Name |-> <<"Q">>, enabled |-> BoolVal(TRUE)],
      [Name |-> <<"R">>, hours |-> <<"3">>, minutes |-> <<"5">>] }

\* every list over S of length at most n
SeqsUpTo(S, n) == UNION {[1..k -> S] : k \in 0..n}

\* the decoded job collections: every list of pool records up to MaxJobs, and
\* every one-row collection over the schedule fields
Collections == SeqsUpTo(JobPool, MaxJobs) \cup {<<j>> : j \in ScheduleFields}

\* the records described: the schedule fields above and every hour range
DescriberJobs ==
    ScheduleFields
    \cup {[hours |-> RangeText(a, b), minutes |-> m] :
              a \in 0..23, b \in 0..23, m \in {<<"0">>, <<"0", "-", "5", "9", "/", "5">>}}

\* descriptions handed to get_frequency_score: those of the jobs above, and
\* phrases of the same shapes
Patterns ==
    {parse_recurring_pattern_description(j) : j \in DescriberJobs \cup JobPool}
    \cup { <<"O", "n", "c", "e", " ", "e", "v", "e", "r", "y", " ", "2", " ", "h", "o", "u", "r", "s">>, <<"o", "n", "c", "e", " ", "e", "v", "e", "r", "y", " ", "h", "o", "u", "r">>, <<"O", "n", "c", "e", " ", "e", "v", "e", "r", "y", " ", "1", "2", " ", "m", "i", "n", "u", "t", "e", "s">>,
           <<"O", "N", "C", "E", " ", "A", " ", "M", "I", "N", "U", "T", "E">>, <<"O", "n", "c", "e", " ", "e", "v", "e", "r", "y", " ", "0", "0", "7", " ", "m", "i", "n", "u", "t", "e", "s", " ", "f", "r", "o", "m", " ", "1", "A", "M", " ", "t", "o", " ", "2", "A", "M">>, <<>> }

----------------------------------------------------------------------------
(* The calls.                                                              *)

Init ==
    /\ call = "none"
    /\ args = <<>>
    /\ ret = Ok(<<>>)

ParseCronTimeRange ==
    \E t \in FieldTexts :
        /\ call = "none"
        /\ call' = "parse_cron_time_range"
        /\ args' = [time_str |-> t]
        /\ ret' = parse_cron_time_range(t)

ParseJobSchedule ==
    \E j \in ScheduleFields :
        /\ call = "none"
        /\ call' = "parse_job_schedule"
        /\ args' = [job |-> j]
        /\ ret' = Ok(parse_job_schedule(j))

ConvertUtcToMst ==
    \E hour \in 0..23, minute \in 0..59 :
        /\ call = "none"
        /\ call' = "convert_utc_to_mst"
        /\ args' = [hour |-> hour, minute |-> minute]
        /\ ret' = convert_utc_to_mst(hour, minute)

FormatTime12Hour ==
    \E hour \in 0..23, minute \in 0..59 :
        /\ call = "none"
        /\ call' = "format_time_12hour"
        /\ args' = [hour |-> hour, minute |-> minute]
        /\ ret' = Ok(format_time_12hour(hour, minute))

CategorizeJobs ==
    \E df \in Collections :
        /\ call = "none"
        /\ call' = "categorize_jobs"
        /\ args' = [df |-> df]
        /\ ret' = Ok(categorize_jobs(df))

ShowJobStatistics ==
    \E df \in SeqsUpTo(JobPool, MaxJobs) :
        /\ call = "none"
        /\ call' = "show_job_statistics"
        /\ args' = [df |-> df]
        /\ ret' = show_job_statistics(df)

\* getJobs hands the view the scheduled jobs of a collection
CreateTimelineView ==
    \E df \in SeqsUpTo(JobPool, MaxJobs) :
        /\ call = "none"
        /\ call' = "create_timeline_view"
        /\ args' = [jobs |-> categorize_jobs(df).scheduled_jobs]
        /\ ret' = create_timeline_view(categorize_jobs(df).scheduled_jobs)

ParseRecurringPatternDescription ==
    \E j \in DescriberJobs :
        /\ call = "none"
        /\ call' = "parse_recurring_pattern_description"
        /\ args' = [job |-> j]
        /\ ret' = Ok(parse_recurring_pattern_description(j))

GetFrequencyScore ==
    \E pattern \in Patterns :
        /\ call = "none"
        /\ call' = "get_frequency_score"
        /\ args' = [pattern |-> pattern]
        /\ ret' = get_frequency_score(pattern)

\* getJobs hands the view the recurring jobs of a collection
CreateRecurringTimelineView ==
    \E df \in SeqsUpTo(JobPool, MaxJobs) :
        /\ call = "none"
        /\ call' = "create_recurring_timeline_view"
        /\ args' = [jobs |-> categorize_jobs(df).recurring_jobs]
        /\ ret' = create_recurring_timeline_view(categorize_jobs(df).recurring_jobs)

NextParser == ParseCronTimeRange \/ ParseJobSchedule

NextExpander == ParseJobSchedule \/ CategorizeJobs

NextClock == ConvertUtcToMst \/ FormatTime12Hour

NextClassifier == CategorizeJobs \/ ShowJobStatistics \/ CreateTimelineView

NextDescriber ==
    ParseRecurringPatternDescription \/ GetFrequencyScore \/ CreateRecurringTimelineView

Next ==
    \/ ParseCronTimeRange \/ ParseJobSchedule
    \/ ConvertUtcToMst \/ FormatTime12Hour
    \/ CategorizeJobs \/ ShowJobStatistics \/ CreateTimelineView
    \/ ParseRecurringPatternDescription \/ GetFrequencyScore \/ CreateRecurringTimelineView

Spec == Init /\ [][Next]_vars

\* the field parser and the occurrence expander alone
SpecParser == Init /\ [][NextParser]_vars

\* the occurrence expander and the classifier that counts its occurrences
SpecExpander == Init /\ [][NextExpander]_vars

\* the timezone converter and the twelve-hour formatter alone
SpecClock == Init /\ [][NextClock]_vars

\* the classifier, the statistics and the timeline alone
SpecClassifier == Init /\ [][NextClassifier]_vars

\* the pattern describer and the recurring view alone
SpecDescriber == Init /\ [][NextDescriber]_vars

----------------------------------------------------------------------------
(* Properties.                                                             *)

\* the set of the elements of a list
Range(seq) == {seq[i] : i \in 1..Len(seq)}

NoRepeats(seq) == Cardinality(Range(seq)) = Len(seq)

EndsWith(s, p) == Len(p) <= Len(s) /\ SubSeq(s, Len(s) - Len(p) + 1, Len(s)) = p

\* the raw text of a column, empty when the record has no such column
Raw(job, col) == IF col \in DOMAIN job THEN job[col] ELSE <<>>

C1_Frequent(job) ==
    \/ Len(parse_job_schedule(job)) > 8
    \/ Contains(Raw(job, "hours"), "/")
    \/ Contains(Raw(job, "minutes"), "/")

C1_Infrequent(job) == ~C1_Frequent(job)

\* C1: categorize_jobs puts a job in the recurring list exactly when it has
\* more than 8 occurrences or a '/' in its raw hours or minutes text, and in
\* the scheduled list otherwise; the two lists are the input filtered in
\* input order, so every job is in exactly one and the lengths add up.
C1_CategorizePartitions ==
    call = "categorize_jobs" =>
        /\ ret.val.recurring_jobs = SelectSeq(args.df, C1_Frequent)
        /\ ret.val.scheduled_jobs = SelectSeq(args.df, C1_Infrequent)
        /\ Len(ret.val.recurring_jobs) + Len(ret.val.scheduled_jobs) = Len(args.df)

\* a collection split into both lists, holding a job of exactly 8 occurrences
\* and a job of fewer that is recurring by its '/' alone
C1_Witness ==
    /\ call = "categorize_jobs"
    /\ Len(args.df) >= 2
    /\ \E i \in 1..Len(ret.val.scheduled_jobs) :
          Len(parse_job_schedule(ret.val.scheduled_jobs[i])) = 8
    /\ \E i \in 1..Len(ret.val.recurring_jobs) :
          Len(parse_job_schedule(ret.val.recurring_jobs[i])) <= 8

\* the texts "a-b/s" with a step of at least 1, with their three numbers
C5_Table ==
    {<<RangeStepText(r[1], r[2], s), r[1], r[2], s>> :
        r \in (0..MaxVal) \X (0..MaxVal), s \in 1..MaxStep}

C5_Expected(a, b, s) == {v \in a..b : (v - a) % s = 0}

\* C5: for "a-b/s" with s >= 1 the field parser returns exactly the values
\* a, a+s, a+2s, ... that are at most b, each once and ascending, all within
\* a..b; when a > b it returns nothing.
C5_RangeWithStep ==
    call = "parse_cron_time_range" =>
        \A e \in C5_Table :
            args.time_str = e[1] =>
                /\ ~ret.raised
                /\ Range(ret.val) = C5_Expected(e[2], e[3], e[4])
                /\ Len(ret.val) = Cardinality(C5_Expected(e[2], e[3], e[4]))
                /\ \A i \in 1..(Len(ret.val) - 1) : ret.val[i + 1] = ret.val[i] + e[4]
                /\ (e[2] > e[3] => ret.val = <<>>)

\* a stepped range of several values whose last value falls short of b
C5_Witness ==
    /\ call = "parse_cron_time_range"
    /\ \E e \in C5_Table :
          /\ args.time_str = e[1]
          /\ e[4] >= 2
          /\ Len(ret.val) >= 3
          /\ ret.val[Len(ret.val)] < e[3]

\* C6: convert_utc_to_mst maps every UTC (hour, minute) of a day to one civil
\* time with hour in 0..23 and minute in 0..59, namely hour - 7 modulo 24 with
\* the minute unchanged, and no other UTC time of the day maps to the same
\* civil time.
C6_ConvertFixedOffset ==
    call = "convert_utc_to_mst" =>
        /\ ~ret.raised
        /\ ret.val[1] \in 0..23
        /\ ret.val[2] \in 0..59
        /\ ret.val = <<(args.hour + 24 - 7) % 24, args.minute>>
        /\ \A hour \in 0..23, minute \in 0..59 :
              convert_utc_to_mst(hour, minute).val = ret.val
                  => hour = args.hour /\ minute = args.minute

\* a UTC time early in the day, which lands on the evening before
C6_Witness ==
    /\ call = "convert_utc_to_mst"
    /\ args.hour = 3
    /\ args.minute = 45
    /\ ret = Ok(<<20, 45>>)

\* C2: with hours "*" the parser gives exactly the 24 hours 0..23 and with
\* minutes "*" exactly the 60 minutes 0..59, so a job with hours "*" and
\* minutes "0" has exactly the 24 occurrences (0,0) .. (23,0).
C2_StarFillsItsDomain ==
    call = "parse_job_schedule" =>
        /\ args.job = [hours |-> <<"*">>, minutes |-> <<"0">>] =>
              Len(ret.val) = 24 /\ Range(ret.val) = (0..23) \X {0}
        /\ args.job = [hours |-> <<"0">>, minutes |-> <<"*">>] =>
              Len(ret.val) = 60 /\ Range(ret.val) = {0} \X (0..59)

\* the integers a valid field text denotes: the values the field parser
\* gives for it, taken as a set
C3_Denoted(text) == Range(parse_cron_time_range(text).val)

\* C3: for valid hours and minutes texts the occurrences of parse_job_schedule
\* are exactly the pairs of H x M, none repeated, so there are |H| * |M| of
\* them, H and M being the sets of integers the two texts denote.
C3_CountIsProductOfSets ==
    (/\ call = "parse_job_schedule"
     /\ DOMAIN args.job = {"hours", "minutes"}
     /\ ~parse_cron_time_range(args.job.hours).raised
     /\ ~parse_cron_time_range(args.job.minutes).raised)
    => LET H == C3_Denoted(args.job.hours)
           M == C3_Denoted(args.job.minutes)
       IN  /\ Len(ret.val) = Cardinality(H) * Cardinality(M)
           /\ Range(ret.val) = H \X M
           /\ NoRepeats(ret.val)

\* the number of times the character c occurs in s
Count(s, c) == Cardinality({i \in 1..Len(s) : s[i] = c})

\* a text with a token that is no number, with more than one dash or slash,
\* or with a step of 0
C4_Malformed(text) ==
    \/ text # <<"*">> /\ \E i \in 1..Len(text) : ~IsDigit(text[i]) /\ text[i] \notin {",", "-", "/"}
    \/ Count(text, "-") > 1
    \/ Count(text, "/") > 1
    \/ /\ Count(text, "/") = 1
       /\ ~int(Split(text, "/")[2]).raised
       /\ int(Split(text, "/")[2]).val = 0

\* C4: a job whose hours or minutes text is malformed gets exactly the one
\* fallback occurrence (0, 0) from parse_job_schedule, and categorize_jobs
\* puts it in exactly one of its two lists.
C4_MalformedFallsBack ==
    /\ (/\ call = "parse_job_schedule"
        /\ \E col \in DOMAIN args.job : C4_Malformed(args.job[col]))
       => ret.val = << <<0, 0>> >>
    /\ (/\ call = "categorize_jobs"
        /\ Len(args.df) = 1
        /\ \E col \in DOMAIN args.df[1] \cap {"hours", "minutes"} : C4_Malformed(args.df[1][col]))
       => Len(ret.val.recurring_jobs) + Len(ret.val.scheduled_jobs) = 1

\* the hours texts "a-b" with both ends in 0..23, with their two numbers
C7_Table == {<<RangeText(a, b), a, b>> : a \in 0..23, b \in 0..23}

\* the hours text with a trailing slash-step dropped
C7_Base(hours) == IF Contains(hours, "/") THEN Split(hours, "/")[1] ELSE hours

C7_Hour12(hour) == IF hour % 12 = 0 THEN 12 ELSE hour % 12

C7_AmPm(hour) == IF hour < 12 THEN <<"A", "M">> ELSE <<"P", "M">>

\* C7 as stated: for an hours range a-b with ends in 0..23, other than
\* "0-23", the description ends with "from <a>:00 <AM/PM> to <b>:59 <AM/PM>",
\* and hours "9-17" with minutes "0" gives "At minute 0 from 9:00 AM to 5:59 PM".
C7_HourClauseWithMinutes ==
    (call = "parse_recurring_pattern_description" /\ "hours" \in DOMAIN args.job) =>
        /\ \A e \in C7_Table :
              (C7_Base(args.job.hours) = e[1] /\ args.job.hours # <<"0", "-", "2", "3">>) =>
                  EndsWith(ret.val,
                           <<" ", "f", "r", "o", "m", " ">> \o format_time_12hour(e[2], 0)
                           \o <<" ", "t", "o", " ">> \o format_time_12hour(e[3], 59))
        /\ args.job = [hours |-> <<"9", "-", "1", "7">>, minutes |-> <<"0">>] =>
              ret.val = <<"A", "t", " ", "m", "i", "n", "u", "t", "e", " ", "0", " ", "f", "r", "o", "m", " ", "9", ":", "0", "0", " ", "A", "M", " ", "t", "o", " ", "5", ":", "5", "9", " ", "P", "M">>

\* C7 amended: for an hours range a-b with ends in 0..23, other than "0-23",
\* the description ends with "from <a><AM/PM> to <b><AM/PM>", the hours on
\* the 12-hour clock with no minutes and no blank before AM or PM, and hours
\* "9-17" with minutes "0" gives "At minute 0 from 9AM to 5PM".
C7_HourClauseHoursOnly ==
    (call = "parse_recurring_pattern_description" /\ "hours" \in DOMAIN args.job) =>
        /\ \A e \in C7_Table :
              (C7_Base(args.job.hours) = e[1] /\ args.job.hours # <<"0", "-", "2", "3">>) =>
                  EndsWith(ret.val,
                           <<" ", "f", "r", "o", "m", " ">> \o Str(C7_Hour12(e[2])) \o C7_AmPm(e[2])
                           \o <<" ", "t", "o", " ">> \o Str(C7_Hour12(e[3])) \o C7_AmPm(e[3]))
        /\ args.job = [hours |-> <<"9", "-", "1", "7">>, minutes |-> <<"0">>] =>
              ret.val = <<"A", "t", " ", "m", "i", "n", "u", "t", "e", " ", "0", " ", "f", "r", "o", "m", " ", "9", "A", "M", " ", "t", "o", " ", "5", "P", "M">>

\* the description of the job with hours "9-17" and minutes "0"
C7_Witness ==
    /\ call = "parse_recurring_pattern_description"
    /\ args.job = [hours |-> <<"9", "-", "1", "7">>, minutes |-> <<"0">>]
    /\ ret.val = <<"A", "t", " ", "m", "i", "n", "u", "t", "e", " ", "0", " ", "f", "r", "o", "m", " ", "9", "A", "M", " ", "t", "o", " ", "5", "P", "M">>

\* C8: over an empty job collection show_job_statistics does not raise and
\* gives total = enabled = disabled = recurring = scheduled = 0,
\* categorize_jobs gives two empty lists and the timeline writes no group.
C8_EmptyCollectionIsNoError ==
    /\ (call = "show_job_statistics" /\ args.df = <<>>) =>
          /\ ~ret.raised
          /\ ret.val = [total |-> 0, enabled |-> 0, disabled |-> 0,
                        recurring |-> 0, scheduled |-> 0]
    /\ (call = "categorize_jobs" /\ args.df = <<>>) =>
          ret.val = [recurring_jobs |-> <<>>, scheduled_jobs |-> <<>>]
    /\ (call = "create_timeline_view" /\ args.jobs = <<>>) => ret = Ok(<<>>)

\* C9: whatever the hours and minutes text of the recurring jobs of a
\* collection, describing them and ordering the pattern groups by frequency
\* score raises nothing.
C9_RecurringViewNeverRaises ==
    call = "create_recurring_timeline_view" => ~ret.raised

\* a record whose minutes text is "<base>/<N>" with an interval N >= 1 that is
\* described as "once a minute" or "once every ... minutes"
C10_HasInterval(job) ==
    /\ "minutes" \in DOMAIN job
    /\ Count(job.minutes, "/") = 1
    /\ ~int(Split(job.minutes, "/")[2]).raised
    /\ int(Split(job.minutes, "/")[2]).val >= 1
    /\ int(Split(job.minutes, "/")[2]).val # 60

C10_Interval(job) == int(Split(job.minutes, "/")[2]).val

\* the place of the group of a job in the view
C10_Place(groups, job) ==
    CHOOSE g \in 1..Len(groups) : groups[g].title = parse_recurring_pattern_description(job)

\* C10: the pattern groups come in descending frequency score, where a
\* description of a minute interval N scores 1000/N however N is spelled and
\* whatever hour clause follows; so of two groups with intervals N1 < N2 the
\* one with N1 comes first, and "Once every five minutes" scores 200.
C10_TighterIntervalFirst ==
    /\ (call = "create_recurring_timeline_view" /\ ~ret.raised) =>
          \A i, j \in 1..Len(args.jobs) :
              (/\ C10_HasInterval(args.jobs[i])
               /\ C10_HasInterval(args.jobs[j])
               /\ C10_Interval(args.jobs[i]) < C10_Interval(args.jobs[j]))
              => C10_Place(ret.val, args.jobs[i]) < C10_Place(ret.val, args.jobs[j])
    /\ (call = "get_frequency_score" /\ args.pattern = <<"O", "n", "c", "e", " ", "e", "v", "e", "r", "y", " ", "f", "i", "v", "e", " ", "m", "i", "n", "u", "t", "e", "s">>) =>
          ~ret.raised /\ ret.num = 200 * ret.den

====
